---------------------------- MODULE Spec2Model ----------------------------
(***************************************************************************)
(* Model of mintpy/objects/conncomp.py: class connectComponent.            *)
(*                                                                         *)
(* Images are row-major sequences: pixel (y, x) of an image with W columns *)
(* is element y*W + x + 1.  Phase values are integers in units of pi/4     *)
(* (2*pi = 8 units); not-a-number is the distinguished value NaN.          *)
(* Distances are kept squared (an integer); every use of a distance in the *)
(* code (argmin, minimum spanning tree) depends on the order only.         *)
(***************************************************************************)
EXTENDS Integers, Sequences, FiniteSets, TLC

VARIABLES
    pc,          \* "new", "constructed", "labeled", "bridged", "raised"
    err,         \* the exception the last call raised, or "none"
    conncomp,    \* the constructor's argument (a record describing the array)
    metadata,    \* the constructor's argument: [hasRef, REF_Y, REF_X]
    length, width, refY, refX,          \* set by __init__
    erosion_size,                       \* the argument label() was called with
    labelImg, numLabel, labelBound, labelRef,   \* set by label()
    hasDistMat, connDict, distMat,      \* set by get_all_bridge()
    bridges,                            \* set by find_mst_bridge()
    runs,        \* number of completed calls of unwrap_conn_comp
    unwArg,      \* [shape, data]: the field the last call was given
    unwNorm,     \* the field after reference normalization (line 196)
    jumps,       \* num_jump of every bridge of the last call, in order
    unwOut       \* the field the last call returned

vars == << pc, err, conncomp, metadata, length, width, refY, refX,
           erosion_size, labelImg, numLabel, labelBound, labelRef,
           hasDistMat, connDict, distMat, bridges,
           runs, unwArg, unwNorm, jumps, unwOut >>

None == -1

---------------------------------------------------------------------------
(* Bounds of the model *)

MaskWid == 3          \* all masks of 2 x MaskWid pixels are inputs
StripWid == 8         \* all masks of 1 x StripWid pixels are inputs
MaxRegions == 10      \* rows of up to MaxRegions isolated pixels are inputs
MaxGap == 3           \* two squares are separated by 1..MaxGap columns
MaxPhase == 3         \* phases are -MaxPhase..MaxPhase times pi/2
MaxRuns == 2          \* unwrap_conn_comp is called at most MaxRuns times
StitchSide == 20      \* side of the images of SpecStitch
WideRuns == 257       \* rows of up to WideRuns runs are the images of SpecWide

---------------------------------------------------------------------------
(* Images *)

Min2(a, b) == IF a < b THEN a ELSE b
Max2(a, b) == IF a > b THEN a ELSE b
Abs(a) == IF a < 0 THEN -a ELSE a

\* an array as the tuple of its values; TLC then holds the values rather
\* than the expression that computes them
Flat(f) == f \o << >>

Idx(y, x, W) == y * W + x + 1
RowOf(k, W) == (k - 1) \div W
ColOf(k, W) == (k - 1) % W

\* the smallest element of a non-empty set of integers
SetMin(S) == CHOOSE k \in S : \A j \in S : k <= j

\* the elements of a set of integers in ascending order
RECURSIVE SortedSeq(_)
SortedSeq(S) == IF S = {} THEN << >>
                ELSE LET m == SetMin(S) IN << m >> \o SortedSeq(S \ {m})

\* the 4-neighbours of pixel k inside an L x W image
Neigh4(k, L, W) ==
    LET y == RowOf(k, W)
        x == ColOf(k, W)
    IN  {Idx(y - 1, x, W) : d \in IF y > 0 THEN {0} ELSE {}}
        \cup {Idx(y + 1, x, W) : d \in IF y < L - 1 THEN {0} ELSE {}}
        \cup {Idx(y, x - 1, W) : d \in IF x > 0 THEN {0} ELSE {}}
        \cup {Idx(y, x + 1, W) : d \in IF x < W - 1 THEN {0} ELSE {}}

\* the 4-connected set of pixels with the value of the pixels reached so far
RECURSIVE Component(_, _, _, _, _)
Component(img, L, W, reached, frontier) ==
    LET v == img[SetMin(reached)]
        new == {n \in UNION {Neigh4(k, L, W) : k \in frontier} :
                    img[n] = v /\ n \notin reached}
    IN  IF new = {} THEN reached
        ELSE Component(img, L, W, reached \cup new, new)

\* skimage.measure.label(img, connectivity=1, return_num=True): the
\* 4-connected regions of equal non-zero value, numbered 1..n in raster order
\* of their first pixel; 0 is background.
RECURSIVE LabelFrom(_, _, _, _, _)
LabelFrom(img, L, W, out, n) ==
    LET todo == {k \in 1..Len(img) : img[k] # 0 /\ out[k] = 0}
    IN  IF todo = {} THEN [img |-> out, num |-> n]
        ELSE LET k == SetMin(todo)
                 comp == Component(img, L, W, {k}, {k})
             IN  LabelFrom(img, L, W,
                           Flat([i \in 1..Len(img) |->
                                    IF i \in comp THEN n + 1 ELSE out[i]]),
                           n + 1)

MeasureLabel(img, L, W) ==
    LabelFrom(img, L, W, Flat([i \in 1..Len(img) |-> 0]), 0)

\* index i of an axis of n pixels under scipy.ndimage's mode 'reflect'
\* (d c b a | a b c d | d c b a)
Reflect(i, n) ==
    LET m == (i + 8 * n) % (2 * n)
    IN  IF m < n THEN m ELSE 2 * n - 1 - m

\* skimage.morphology.erosion(img, np.ones((e, e))), e odd: the minimum over
\* the e x e window centred on the pixel, the image reflected at its border
ErodedValue(img, L, W, k, e) ==
    LET h == (e - 1) \div 2
        y == RowOf(k, W)
        x == ColOf(k, W)
        win == {img[Idx(Reflect(y + dy, L), Reflect(x + dx, W), W)] :
                    dy \in (-h)..h, dx \in (-h)..h}
    IN  SetMin(win)

\* the image as it is, for an erosion that removes nothing
NoErosion(img, L, W, e) == img

Erosion(img, L, W, e) ==
    Flat([k \in 1..Len(img) |-> ErodedValue(img, L, W, k, e)])

\* ndarray.astype(np.uint8)
AsUint8(img) == Flat([k \in 1..Len(img) |-> img[k] % 256])

\* skimage.measure.regionprops(img): one region per label present, in
\* ascending order of the label
RegionLabels(img) == SortedSeq({img[k] : k \in 1..Len(img)} \ {0})

\* region.coords: the pixels of a label (raster order is index order)
Coords(img, lab) == {k \in 1..Len(img) : img[k] = lab}

\* skimage.segmentation.find_boundaries(img, mode='thick'): a pixel is a
\* boundary when its cross-shaped neighbourhood is not constant
FindBoundaries(img, L, W) ==
    Flat([k \in 1..Len(img) |->
            IF \E n \in Neigh4(k, L, W) : img[n] # img[k] THEN 1 ELSE 0])

---------------------------------------------------------------------------
(* get_large_label and label *)

MinArea == 2500           \* label(min_area=2.5e3)
DefaultErosion == 5       \* label(erosion_size=5)
ErosionSizes == {1, 3, DefaultErosion}

\* count < min(min_area, label_img.size * 3e-3)
IsSmall(count, size, min_area) ==
    count < min_area /\ 1000 * count < 3 * size

\* label_img[label_img == i] = 0 for every label i of the set
ClearLabels(img, labs) ==
    Flat([k \in 1..Len(img) |-> IF img[k] \in labs THEN 0 ELSE img[k]])

\* label_bound = find_boundaries(label_erosion_img) * label_erosion_img
BoundaryOf(ero, L, W) ==
    LET b == FindBoundaries(ero, L, W)
    IN  Flat([k \in 1..Len(ero) |-> (b[k] * ero[k]) % 256])

\* get_large_label(mask, min_area, erosion_size, get_boundary=True)
get_large_label(mask, L, W, min_area, e) ==
    LET l1 == MeasureLabel(mask, L, W)
        small == {i \in 1..l1.num :
                    IsSmall(Cardinality(Coords(l1.img, i)), Len(mask), min_area)}
        l2 == MeasureLabel(ClearLabels(l1.img, small), L, W)
        ero == AsUint8(Erosion(l2.img, L, W, e))
        erosion_regions == RegionLabels(ero)
        label_erosion == {erosion_regions[i] : i \in 1..Len(erosion_regions)}
        lost == IF Len(erosion_regions) < l2.num
                THEN (1..l2.num) \ label_erosion
                ELSE {}
        l3 == MeasureLabel(ClearLabels(l2.img, lost), L, W)
    IN  [label_img |-> l3.img, num_label |-> l3.num,
         label_bound |-> BoundaryOf(ero, L, W)]

\* regions[np.argmax([region.area for region in regions])].label: the first
\* label of the largest area
LargestLabel(img, n) ==
    LET area(i) == Cardinality(Coords(img, i))
    IN  CHOOSE i \in 1..n :
            /\ \A j \in 1..n : area(j) <= area(i)
            /\ \A j \in 1..(i - 1) : area(j) < area(i)

---------------------------------------------------------------------------
(* get_all_bridge *)

\* str(n): the decimal digits of n
RECURSIVE Str(_)
Str(n) == IF n < 10 THEN << n >> ELSE Str(n \div 10) \o << n % 10 >>

\* squared Euclidean distance of two pixels
DistSq(p, q, W) ==
    (RowOf(p, W) - RowOf(q, W)) * (RowOf(p, W) - RowOf(q, W))
    + (ColOf(p, W) - ColOf(q, W)) * (ColOf(p, W) - ColOf(q, W))

\* itertools.combinations(range(numLabel), 2), with labels counted from 1
Pairs(n) == {p \in (1..n) \X (1..n) : p[1] < p[2]}

PairBefore(p, q) == p[1] < q[1] \/ (p[1] = q[1] /\ p[2] < q[2])

\* dist, idx = trees[i].query(regions[j].coords): the squared distance from
\* point q to the nearest point of Pi
NearestSq(q, Pi, W) == SetMin({DistSq(p, q, W) : p \in Pi})

\* the records get_all_bridge can store for the pair (i, j): yxj is the first
\* point of region j (np.argmin) at the minimum distance, yxi a point of
\* region i nearest to it (the k-d tree's choice among equidistant ones)
ConnsOf(i, j, Pi, Pj, W) ==
    LET dmin == SetMin({NearestSq(q, Pi, W) : q \in Pj})
        yxj == SetMin({q \in Pj : NearestSq(q, Pi, W) = dmin})
    IN  { [n0 |-> Str(i), yx0 |-> yxi, n1 |-> Str(j), yx1 |-> yxj,
           distance |-> dmin] : yxi \in {p \in Pi : DistSq(p, yxj, W) = dmin} }

\* every assignment of one record to each pair of the set
RECURSIVE ConnChoices(_, _, _, _)
ConnChoices(P, regions, bound, W) ==
    IF P = {} THEN { << >> }
    ELSE LET p == CHOOSE q \in P : \A r \in P : r = q \/ PairBefore(q, r)
             cs == ConnsOf(p[1], p[2], Coords(bound, regions[p[1]]),
                           Coords(bound, regions[p[2]]), W)
         IN  { (p :> c) @@ rest : c \in cs,
               rest \in ConnChoices(P \ {p}, regions, bound, W) }

\* '{}{}'.format(n0, n1)
KeyOf(s0, s1) == s0 \o s1

\* self.connDict after the loop: a later pair overwrites an earlier one of
\* the same key
DictOf(choice, n) ==
    LET keys == {KeyOf(Str(p[1]), Str(p[2])) : p \in Pairs(n)}
        last(k) == CHOOSE p \in Pairs(n) :
                      /\ KeyOf(Str(p[1]), Str(p[2])) = k
                      /\ \A q \in Pairs(n) :
                            KeyOf(Str(q[1]), Str(q[2])) = k =>
                                (q = p \/ PairBefore(q, p))
    IN  [k \in keys |-> choice[last(k)]]

\* self.distMat: symmetric, zero diagonal
DistMatOf(choice, n) ==
    [p \in (1..n) \X (1..n) |->
        IF p[1] < p[2] THEN choice[p].distance
        ELSE IF p[2] < p[1] THEN choice[<< p[2], p[1] >>].distance
        ELSE 0]

---------------------------------------------------------------------------
(* find_mst_bridge *)

\* the nodes a set of undirected edges connects to the nodes of S
RECURSIVE ReachFrom(_, _)
ReachFrom(F, S) ==
    LET new == {e[2] : e \in {f \in F : f[1] \in S}}
               \cup {e[1] : e \in {f \in F : f[2] \in S}}
    IN  IF new \subseteq S THEN S ELSE ReachFrom(F, S \cup new)

Joined(F, e) == e[2] \in ReachFrom(F, {e[1]})

\* the edges of the dense matrix: csgraph drops the zero entries
GraphEdges(dist, n) == {p \in Pairs(n) : dist[p] # 0}

\* csgraph.minimum_spanning_tree(distMat): Kruskal's algorithm over the
\* edges sorted by weight.  The order of equal weights is np.argsort's, which
\* is not stable: every order is possible.  F is the forest so far, E the
\* edges not yet decided, X the edges of the current weight left out, which
\* an edge of the same weight must then have joined.
RECURSIVE Kruskal(_, _, _, _)
Kruskal(dist, F, E, X) ==
    LET usable == {e \in E : ~Joined(F, e)}
    IN  IF usable = {}
        THEN IF \A x \in X : Joined(F, x) THEN {F} ELSE {}
        ELSE LET w == SetMin({dist[e] : e \in usable})
                 cands == {e \in usable : dist[e] = w}
                 e == CHOOSE c \in cands :
                        \A d \in cands : d = c \/ PairBefore(c, d)
             IN  IF \E x \in X : dist[x] < w /\ ~Joined(F, x) THEN {}
                 ELSE Kruskal(dist, F \cup {e}, E \ {e}, X)
                      \cup (IF Joined(F \cup (cands \ {e}), e)
                            THEN Kruskal(dist, F, E \ {e}, X \cup {e})
                            ELSE {})

minimum_spanning_tree(dist, n) == Kruskal(dist, {}, GraphEdges(dist, n), {})

\* The tree as the sparse matrix holds it: Kruskal keeps, of the two entries
\* (i, j) and (j, i) of an edge, the one that comes first in the sort; S is
\* the set of edges kept as (low, high).
Stored(T, S) ==
    {<< e[1], e[2] >> : e \in T \cap S} \cup {<< e[2], e[1] >> : e \in T \ S}

\* csgraph.breadth_first_order(tree, i_start, directed=False): the children
\* of a node are its unvisited successors in the matrix, by column, then its
\* unvisited predecessors.  order is the sequence of <<node, predecessor>>.
RECURSIVE BfsLoop(_, _, _)
BfsLoop(D, order, head) ==
    IF head > Len(order) THEN order
    ELSE LET p == order[head][1]
             seen == {order[i][1] : i \in 1..Len(order)}
             fw == {e[2] : e \in {d \in D : d[1] = p}} \ seen
             bw == ({e[1] : e \in {d \in D : d[2] = p}} \ seen) \ fw
             kids == SortedSeq(fw) \o SortedSeq(bw)
         IN  BfsLoop(D, order \o [i \in 1..Len(kids) |-> << kids[i], p >>],
                     head + 1)

\* the start node followed by the other nodes in the reverse of the order
\* of the traversal
ReverseOrder(D, i_start) ==
    LET o == BfsLoop(D, << << i_start, None >> >>, 1)
    IN  << o[1] >> \o [i \in 1..(Len(o) - 1) |-> o[Len(o) + 1 - i]]

breadth_first_order(D, i_start) == BfsLoop(D, << << i_start, None >> >>, 1)

\* s < t for two strings of digits, as Python compares strings
RECURSIVE StrLess(_, _)
StrLess(s, t) ==
    IF s = << >> THEN t # << >>
    ELSE IF t = << >> THEN FALSE
    ELSE IF s[1] # t[1] THEN s[1] < t[1]
    ELSE StrLess(Tail(s), Tail(t))

\* nn = sorted([str(n0), str(n1)]); '{}{}'.format(nn[0], nn[1])
NumericKey(n0, n1) == KeyOf(Str(Min2(n0, n1)), Str(Max2(n0, n1)))

LookupKey(n0, n1) ==
    IF StrLess(Str(n1), Str(n0)) THEN KeyOf(Str(n1), Str(n0))
    ELSE KeyOf(Str(n0), Str(n1))

\* conn[str(n)]: the stored pixel, or 0 for a KeyError
ConnGet(conn, s) ==
    IF s = conn.n1 THEN conn.yx1
    ELSE IF s = conn.n0 THEN conn.yx0
    ELSE 0

\* the bridge of the tree edge (n0, n1)
BridgeOf(conn, n0, n1, W) ==
    [x0 |-> ColOf(ConnGet(conn, Str(n0)), W),
     y0 |-> RowOf(ConnGet(conn, Str(n0)), W),
     x1 |-> ColOf(ConnGet(conn, Str(n1)), W),
     y1 |-> RowOf(ConnGet(conn, Str(n1)), W),
     label0 |-> n0, label1 |-> n1]

\* the loop of lines 156-172 from step i on: the bridges appended and whether
\* a dictionary lookup raised KeyError
RECURSIVE BridgeLoop(_, _, _, _, _)
BridgeLoop(cd, order, i, W, acc) ==
    IF i > Len(order) THEN [bridges |-> acc, err |-> "none"]
    ELSE LET n0 == order[i][2]
             n1 == order[i][1]
             key == LookupKey(n0, n1)
         IN  IF key \notin DOMAIN cd
                \/ ConnGet(cd[key], Str(n0)) = 0
                \/ ConnGet(cd[key], Str(n1)) = 0
             THEN [bridges |-> acc, err |-> "KeyError"]
             ELSE BridgeLoop(cd, order, i + 1, W,
                             Append(acc, BridgeOf(cd[key], n0, n1, W)))

---------------------------------------------------------------------------
(* unwrap_conn_comp *)

DefaultRadius == 50       \* unwrap_conn_comp(radius=50)
TwoPi == 8                \* 2*pi in units of pi/4
NaN == 0 - 1000000        \* not-a-number

\* float arithmetic with not-a-number
AddF(a, b) == IF a = NaN \/ b = NaN THEN NaN ELSE a + b
SubF(a, b) == IF a = NaN \/ b = NaN THEN NaN ELSE a - b

\* radius = int(min(radius, min(self.conncomp.shape) * 0.05))
ClampRadius(radius, L, W) == Min2(radius, Min2(L, W) \div 20)

\* unw[unw != 0.] -= unw[self.refY, self.refX]
Normalize(data, ref) ==
    Flat([k \in 1..Len(data) |->
            IF data[k] # 0 THEN SubF(data[k], ref) ELSE data[k]])

\* get_bridge_endpoint_aoi_mask: the pixels of the window [y - r, y + r) x
\* [x - r, x + r), clipped to the image
AoiMask(x, y, r, L, W) ==
    {Idx(yy, xx, W) : yy \in Max2(0, y - r)..(Min2(L, y + r) - 1),
                      xx \in Max2(0, x - r)..(Min2(W, x + r) - 1)}

\* the values of the pixels of S in ascending order
RECURSIVE SortVals(_, _)
SortVals(data, S) ==
    IF S = {} THEN << >>
    ELSE LET p == CHOOSE q \in S : \A r \in S : data[q] <= data[r]
         IN  << data[p] >> \o SortVals(data, S \ {p})

\* np.nanmedian(unw[mask]): NaN of an empty or all-NaN selection; the mean of
\* the two middle values of an even number of values
NanMedian(data, S) ==
    LET v == SortVals(data, {k \in S : data[k] # NaN})
        n == Len(v)
    IN  IF n = 0 THEN NaN
        ELSE IF n % 2 = 1 THEN v[(n + 1) \div 2]
        ELSE (v[n \div 2] + v[n \div 2 + 1]) \div 2

\* the number of whole cycles in diff_value, without the half cycle added
\* before the floor division
TruncJump(diff_value) ==
    IF diff_value = NaN THEN NaN
    ELSE IF diff_value > 0 THEN 0 - (Abs(diff_value) \div TwoPi)
    ELSE Abs(diff_value) \div TwoPi

\* num_jump = (np.abs(diff_value) + np.pi) // (2.*np.pi), negated when
\* diff_value > 0
NumJump(diff_value) ==
    IF diff_value = NaN THEN NaN
    ELSE LET j == (Abs(diff_value) + TwoPi \div 2) \div TwoPi
         IN  IF diff_value > 0 THEN 0 - j ELSE j

\* unw[label_mask1] += 2. * np.pi * num_jump
AddJump(data, img, lab, num_jump) ==
    Flat([k \in 1..Len(data) |->
            IF img[k] = lab
            THEN AddF(data[k], IF num_jump = NaN THEN NaN ELSE TwoPi * num_jump)
            ELSE data[k]])

\* diff_value of a bridge on a field
DiffValue(data, img, b, r, L, W) ==
    LET value0 == NanMedian(data, {k \in AoiMask(b.x0, b.y0, r, L, W) :
                                        img[k] = b.label0})
        value1 == NanMedian(data, {k \in AoiMask(b.x1, b.y1, r, L, W) :
                                        img[k] = b.label1})
    IN  SubF(value1, value0)

\* the loop of lines 204-221 from bridge i on
RECURSIVE StitchLoop(_, _, _, _, _, _, _, _)
StitchLoop(data, img, bs, i, r, L, W, js) ==
    IF i > Len(bs) THEN [data |-> data, jumps |-> js]
    ELSE LET num_jump == NumJump(DiffValue(data, img, bs[i], r, L, W))
         IN  StitchLoop(AddJump(data, img, bs[i].label1, num_jump),
                        img, bs, i + 1, r, L, W, Append(js, num_jump))

---------------------------------------------------------------------------
(* Inputs *)

Array(nd, ndim, dtype, shape, data) ==
    [nd |-> nd, ndim |-> ndim, dtype |-> dtype, shape |-> shape, data |-> data]

\* the pixels (y, x) of an L x W image
Pixels(L, W) == (0..(L - 1)) \X (0..(W - 1))

\* the L x W image that is true on the pixels of T
Image(L, W, T) ==
    Flat([k \in 1..(L * W) |->
            IF << RowOf(k, W), ColOf(k, W) >> \in T THEN 1 ELSE 0])

\* every boolean mask of 2 x MaskWid pixels
SmallMasks ==
    {Array(TRUE, 2, "bool", << 2, MaskWid >>, d) :
        d \in [1..(2 * MaskWid) -> {0, 1}]}

\* every boolean mask of 1 x StripWid pixels
StripMasks ==
    {Array(TRUE, 2, "bool", << 1, StripWid >>, d) :
        d \in [1..StripWid -> {0, 1}]}

\* a row of K isolated pixels, as an integer array of 0 and 1
RowMask(K) ==
    LET P(y, x) == x % 2 = 0
    IN  Array(TRUE, 2, "int", << 1, 2 * K - 1 >>,
              Image(1, 2 * K - 1, {p \in Pixels(1, 2 * K - 1) : P(p[1], p[2])}))

RowMasks == {RowMask(K) : K \in 1..MaxRegions}

\* two S x S squares on the same rows (dir = "h") or columns (dir = "v"),
\* gap false pixels apart, m false pixels from the border of the image
SquareMask(S, gap, m, dir) ==
    LET In(a, b) == (m <= a /\ a < m + S)
                    /\ ((m <= b /\ b < m + S)
                        \/ (m + S + gap <= b /\ b < m + 2 * S + gap))
        P(y, x) == IF dir = "h" THEN In(y, x) ELSE In(x, y)
        L == IF dir = "h" THEN S + 2 * m ELSE 2 * S + gap + 2 * m
        W == IF dir = "h" THEN 2 * S + gap + 2 * m ELSE S + 2 * m
    IN  Array(TRUE, 2, "bool", << L, W >>,
              Image(L, W, {p \in Pixels(L, W) : P(p[1], p[2])}))

SquareSides == {DefaultErosion, DefaultErosion + 1}

SquareScenes ==
    {[S |-> S, gap |-> gap, m |-> m, dir |-> dir,
      mask |-> SquareMask(S, gap, m, dir)] :
        S \in SquareSides, gap \in 1..MaxGap, m \in {0, 1}, dir \in {"h", "v"}}

SquareMasks == {sc.mask : sc \in SquareScenes}

\* a row of K runs of true pixels one false pixel apart: the runs of T are
\* DefaultErosion pixels long and keep one pixel under the default erosion,
\* the others are one pixel shorter and vanish under it.  No run is below
\* the area threshold of 0.3% of the image.
WideMask(K, T) ==
    LET e == DefaultErosion
        First(i) == e * (i - 1) + Cardinality({t \in T : t < i})
        Last(i) == First(i) + (IF i \in T THEN e ELSE e - 1) - 1
        Wd == Last(K) + 1
        P(y, x) == \E i \in {x \div e, x \div e + 1} :
                      i \in 1..K /\ First(i) <= x /\ x <= Last(i)
    IN  Array(TRUE, 2, "bool", << 1, Wd >>,
              Image(1, Wd, {p \in Pixels(1, Wd) : P(p[1], p[2])}))

\* the long runs are the first, the last and one of two others
WideMasks ==
    {WideMask(K, {1, t, K}) : K \in (WideRuns - 2)..WideRuns,
                              t \in {2, WideRuns - 3}}

\* arguments that are not a 2D boolean or integer array
BadArgs ==
    { Array(FALSE, 2, "bool", << 2, 2 >>, << 1, 1, 0, 1 >>),
      Array(TRUE, 1, "bool", << 4 >>, << 1, 1, 0, 1 >>),
      Array(TRUE, 3, "int", << 1, 2, 2 >>, << 1, 1, 0, 1 >>),
      Array(TRUE, 2, "float", << 2, 2 >>, << 1, 1, 0, 1 >>) }

IsMask(a) == a.nd /\ a.ndim = 2 /\ a.dtype \in {"bool", "int"}

NoRef == [hasRef |-> FALSE, REF_Y |-> None, REF_X |-> None]

\* the metadata records tried with an array: no reference pixel, or one of
\* two corners of the image
MetaChoices(a) ==
    {NoRef} \cup
    (IF a.ndim = 2
     THEN {[hasRef |-> TRUE, REF_Y |-> p[1], REF_X |-> p[2]] :
             p \in {<< 0, 0 >>, << a.shape[1] - 1, a.shape[2] - 1 >>}}
     ELSE {})

\* the masks of SpecStitch, n x n pixels: three vertical strips; four
\* quadrants; two strips with, between them, a sliver two pixels wide and an
\* isolated pixel
StitchMask(kind, n) ==
    LET h == n \div 2
        t == n \div 3
        P(y, x) ==
            CASE kind = "thirds" -> x # t /\ x # 2 * t
              [] kind = "quadrants" -> x # h /\ y # h
              [] kind = "debris" -> (x < h - 3) \/ (x > h + 3)
                                     \/ (x = h) \/ (x = h - 1 /\ y < h)
                                     \/ (x = h - 2 /\ y = h)
    IN  Array(TRUE, 2, "bool", << n, n >>,
              Image(n, n, {p \in Pixels(n, n) : P(p[1], p[2])}))

StitchKinds == {"thirds", "quadrants", "debris"}

StitchMasks == {StitchMask(kind, StitchSide) : kind \in StitchKinds}

\* phases are even numbers of units, so that the mean of two is a whole
\* number of units
PhaseSet == {2 * i : i \in (0 - MaxPhase)..MaxPhase}

Field(shape, data) == [shape |-> shape, data |-> data]

\* the value of unwArg before the first call
NoField == Field(<< 0, 0 >>, << >>)

\* the fields tried on a small image: a constant plus a three-pixel ramp, of
\* the shape of the mask or of another shape
SmallFields(L, W) ==
    {Field(<< L, W >>, [k \in 1..(L * W) |-> c + 2 * g * ((k - 1) % 3)]) :
        c \in {0 - 2, 0, 2}, g \in {0, 1}}
    \cup {Field(<< L + 1, W >>, [k \in 1..((L + 1) * W) |-> 2]),
          Field(<< 1, 1 >>, << 4 >>)}

\* the fields tried on an image of SpecStitch: 0 on the first third of the
\* columns, b on the second, b + s on the last, plus a checkerboard of half
\* a cycle scaled by g
StitchFields(L, W) ==
    {Field(<< L, W >>,
           [k \in 1..(L * W) |->
                (IF 3 * ColOf(k, W) < W THEN 0
                 ELSE IF 3 * ColOf(k, W) < 2 * W THEN b ELSE b + s)
                + 2 * g * ((RowOf(k, W) + ColOf(k, W)) % 2)]) :
        b \in PhaseSet, s \in {0 - 4, 6}, g \in {0, 1}}

FieldsFor(L, W) ==
    IF ClampRadius(DefaultRadius, L, W) = 0 THEN SmallFields(L, W)
    ELSE StitchFields(L, W)

---------------------------------------------------------------------------
(* The object *)

Unset ==
    /\ length = None /\ width = None /\ refY = None /\ refX = None
    /\ erosion_size = None
    /\ labelImg = << >> /\ numLabel = 0 /\ labelBound = << >> /\ labelRef = None
    /\ hasDistMat = FALSE /\ connDict = << >> /\ distMat = << >>
    /\ bridges = << >>
    /\ runs = 0 /\ unwArg = NoField /\ unwNorm = << >> /\ jumps = << >>
    /\ unwOut = << >>

InitWith(arrays) ==
    /\ pc = "new" /\ err = "none"
    /\ conncomp \in arrays
    /\ metadata \in MetaChoices(conncomp)
    /\ Unset

Init == InitWith(SmallMasks \cup StripMasks \cup RowMasks \cup SquareMasks \cup BadArgs)

InitStitch == InitWith(StitchMasks)

InitWide == InitWith(WideMasks)

\* __init__(conncomp, metadata)
Construct ==
    /\ pc = "new"
    /\ IF ~conncomp.nd \/ conncomp.ndim # 2
       THEN /\ pc' = "raised" /\ err' = "ValueError"
            /\ UNCHANGED << length, width, refY, refX >>
       ELSE /\ pc' = "constructed" /\ err' = "none"
            /\ refY' = IF metadata.hasRef THEN metadata.REF_Y ELSE None
            /\ refX' = IF metadata.hasRef THEN metadata.REF_X ELSE None
            /\ length' = conncomp.shape[1]
            /\ width' = conncomp.shape[2]
    /\ UNCHANGED << conncomp, metadata, erosion_size, labelImg, numLabel,
                    labelBound, labelRef, hasDistMat, connDict, distMat,
                    bridges, runs, unwArg, unwNorm, jumps, unwOut >>

\* label(min_area=2.5e3, erosion_size=e) on a boolean or integer mask, for
\* an e of the set
LabelWith(sizes) ==
    /\ pc = "constructed"
    /\ conncomp.dtype \in {"bool", "int"}
    /\ \E e \in sizes :
        \E g \in {get_large_label(conncomp.data, length, width, MinArea, e)} :
            /\ erosion_size' = e
            /\ labelImg' = g.label_img
            /\ numLabel' = g.num_label
            /\ labelBound' = g.label_bound
            /\ IF refY # None
               THEN /\ labelRef' = g.label_img[Idx(refY, refX, width)]
                    /\ pc' = "labeled" /\ err' = "none"
               ELSE IF g.num_label = 0
               THEN /\ labelRef' = None
                    /\ pc' = "raised" /\ err' = "ValueError"
               ELSE /\ labelRef' = LargestLabel(g.label_img, g.num_label)
                    /\ pc' = "labeled" /\ err' = "none"
    /\ UNCHANGED << conncomp, metadata, length, width, refY, refX,
                    hasDistMat, connDict, distMat, bridges,
                    runs, unwArg, unwNorm, jumps, unwOut >>

\* label(erosion_size=e) for the sizes of ErosionSizes
Label == LabelWith(ErosionSizes)

\* label() with its default erosion_size
LabelDefault == LabelWith({DefaultErosion})

\* the results get_all_bridge can have: an IndexError at regions[i] when the
\* boundary image holds fewer labels than numLabel, else a dictionary and a
\* distance matrix
AllBridgeResults ==
    LET regions == RegionLabels(labelBound)
    IN  IF Len(regions) < numLabel
        THEN {[err |-> "IndexError", connDict |-> << >>, distMat |-> << >>]}
        ELSE {[err |-> "none", connDict |-> DictOf(ch, numLabel),
               distMat |-> DistMatOf(ch, numLabel)] :
                ch \in ConnChoices(Pairs(numLabel), regions, labelBound, width)}

\* get_all_bridge()
GetAllBridge ==
    /\ pc = "labeled"
    /\ ~hasDistMat
    /\ \E r \in AllBridgeResults :
        /\ err' = r.err
        /\ pc' = IF r.err = "none" THEN "labeled" ELSE "raised"
        /\ hasDistMat' = (r.err = "none")
        /\ connDict' = r.connDict
        /\ distMat' = r.distMat
    /\ UNCHANGED << conncomp, metadata, length, width, refY, refX,
                    erosion_size, labelImg, numLabel, labelBound, labelRef,
                    bridges, runs, unwArg, unwNorm, jumps, unwOut >>

\* the results of lines 150-173 on a dictionary and a distance matrix.  With
\* i_start = labelRef - 1 out of range the traversal is undefined: scipy
\* either rejects it or visits no node.
MstBridgeResults(cd, dm) ==
    IF labelRef \notin 1..numLabel
    THEN {[err |-> "none", bridges |-> << >>],
          [err |-> "ValueError", bridges |-> << >>]}
    ELSE UNION { {BridgeLoop(cd, breadth_first_order(Stored(T, S), labelRef),
                             2, width, << >>) : S \in SUBSET T} :
                 T \in minimum_spanning_tree(dm, numLabel) }

\* find_mst_bridge(), which calls get_all_bridge() first when the object has
\* no distMat yet
FindMstBridge ==
    /\ pc = "labeled"
    /\ \E a \in IF hasDistMat
                THEN {[err |-> "none", connDict |-> connDict, distMat |-> distMat]}
                ELSE AllBridgeResults :
        /\ connDict' = a.connDict
        /\ distMat' = a.distMat
        /\ hasDistMat' = (a.err = "none")
        /\ IF a.err # "none"
           THEN /\ pc' = "raised" /\ err' = a.err
                /\ bridges' = bridges
           ELSE \E r \in MstBridgeResults(a.connDict, a.distMat) :
                /\ bridges' = r.bridges
                /\ err' = r.err
                /\ pc' = IF r.err = "none" THEN "bridged" ELSE "raised"
    /\ UNCHANGED << conncomp, metadata, length, width, refY, refX,
                    erosion_size, labelImg, numLabel, labelBound, labelRef,
                    runs, unwArg, unwNorm, jumps, unwOut >>

\* the result of unwrap_conn_comp(unw, radius=50, ramp_type=None): an
\* IndexError from unw[refY, refX] or from a boolean index of another shape,
\* else the returned field
UnwrapResult(u) ==
    LET r == ClampRadius(DefaultRadius, length, width)
        refOut == refY # None /\ (refY >= u.shape[1] \/ refX >= u.shape[2])
        norm == IF refY = None \/ refOut THEN u.data
                ELSE Normalize(u.data, u.data[Idx(refY, refX, u.shape[2])])
    IN  IF refOut
        THEN [err |-> "IndexError", norm |-> << >>, data |-> << >>,
              jumps |-> << >>]
        ELSE IF bridges # << >> /\ u.shape # << length, width >>
        THEN [err |-> "IndexError", norm |-> norm, data |-> << >>,
              jumps |-> << >>]
        ELSE LET st == StitchLoop(norm, labelImg, bridges, 1, r, length,
                                  width, << >>)
             IN  [err |-> "none", norm |-> norm, data |-> st.data,
                  jumps |-> st.jumps]

\* unwrap_conn_comp(unw): on a field of the input set, or on the field the
\* previous call returned
Unwrap ==
    /\ pc = "bridged"
    /\ runs < MaxRuns
    /\ \E u \in IF runs = 0 THEN FieldsFor(length, width)
                ELSE {Field(unwArg.shape, unwOut)} :
        \E res \in {UnwrapResult(u)} :
            /\ unwArg' = u
            /\ err' = res.err
            /\ pc' = IF res.err = "none" THEN "bridged" ELSE "raised"
            /\ unwNorm' = res.norm
            /\ unwOut' = res.data
            /\ jumps' = res.jumps
            /\ runs' = IF res.err = "none" THEN runs + 1 ELSE runs
    /\ UNCHANGED << conncomp, metadata, length, width, refY, refX,
                    erosion_size, labelImg, numLabel, labelBound, labelRef,
                    hasDistMat, connDict, distMat, bridges >>

Next == Construct \/ Label \/ GetAllBridge \/ FindMstBridge \/ Unwrap

Spec == Init /\ [][Next]_vars

SpecStitch == InitStitch /\ [][Next]_vars

\* the callers that leave erosion_size at its default, on the long rows
NextWide == Construct \/ LabelDefault \/ GetAllBridge \/ FindMstBridge \/ Unwrap

SpecWide == InitWide /\ [][NextWide]_vars

---------------------------------------------------------------------------
(* Properties *)

BridgeIdx == 1..Len(bridges)

\* unwrap_conn_comp has returned a field of the shape of the mask
Returned == runs >= 1 /\ unwArg.shape = << length, width >>

\* the pixels AOI0 * label0 and AOI1 * label1 of a bridge
Aoi0(b) ==
    {k \in AoiMask(b.x0, b.y0, ClampRadius(DefaultRadius, length, width),
                   length, width) : labelImg[k] = b.label0}

Aoi1(b) ==
    {k \in AoiMask(b.x1, b.y1, ClampRadius(DefaultRadius, length, width),
                   length, width) : labelImg[k] = b.label1}

\* C1: in the list find_mst_bridge built for a reference label in 1..N,
\* every other label is label1 of exactly one bridge, the reference label of
\* none, and label0 of a bridge is the reference label or the label1 of an
\* earlier bridge.
C1_BfsOrder ==
    (pc = "bridged" /\ labelRef \in 1..numLabel) =>
        /\ \A n \in (1..numLabel) \ {labelRef} :
              Cardinality({i \in BridgeIdx : bridges[i].label1 = n}) = 1
        /\ \A i \in BridgeIdx : bridges[i].label1 # labelRef
        /\ \A i \in BridgeIdx :
              \/ bridges[i].label0 = labelRef
              \/ \E j \in 1..(i - 1) : bridges[j].label1 = bridges[i].label0

C1_Witness ==
    /\ pc = "bridged" /\ labelRef \in 1..numLabel /\ numLabel >= 4
    /\ \E i \in BridgeIdx : bridges[i].label0 # labelRef

\* C2: when unwrap_conn_comp has run through the bridge list, the medians of
\* the returned field over AOI1 * label1 and AOI0 * label0 of every bridge
\* with two non-empty intersections differ by at most pi.
C2_AlignedWithinHalfCycle ==
    Returned =>
        \A i \in BridgeIdx :
            (Aoi0(bridges[i]) # {} /\ Aoi1(bridges[i]) # {}) =>
                LET d == SubF(NanMedian(unwOut, Aoi1(bridges[i])),
                              NanMedian(unwOut, Aoi0(bridges[i])))
                IN  d # NaN /\ Abs(d) <= TwoPi \div 2

C2_Witness ==
    /\ Returned /\ Len(bridges) >= 2
    /\ \A i \in BridgeIdx :
          /\ Aoi0(bridges[i]) # {} /\ Aoi1(bridges[i]) # {}
          /\ jumps[i] # 0
    /\ \E i \in BridgeIdx : bridges[i].label0 # labelRef

\* C3: a second run of unwrap_conn_comp on the field the first run returned
\* computes num_jump = 0 at every bridge.
C3_Idempotent ==
    (Returned /\ runs >= 2) => \A i \in BridgeIdx : jumps[i] = 0

\* the scene of the two-squares family the mask is, labelled with erosion e
\* and with get_all_bridge done
IsSquareScene(sc, e) ==
    /\ conncomp = sc.mask
    /\ erosion_size = e
    /\ hasDistMat

\* column (dir "h") or row (dir "v") of a pixel, and the other coordinate
Along(sc, k) == IF sc.dir = "h" THEN ColOf(k, width) ELSE RowOf(k, width)
Across(sc, k) == IF sc.dir = "h" THEN RowOf(k, width) ELSE ColOf(k, width)

OneRegion ==
    /\ IsMask(conncomp)
    /\ MeasureLabel(conncomp.data, conncomp.shape[1], conncomp.shape[2]).num = 1

\* the field changed by reference normalization only
NormalizedOnly ==
    \A k \in 1..Len(unwOut) :
        unwOut[k] = IF refY # None /\ unwArg.data[k] # 0
                    THEN unwArg.data[k] - unwArg.data[Idx(refY, refX, width)]
                    ELSE unwArg.data[k]

\* C5: for a mask of exactly one region, label() yields numLabel = 1,
\* find_mst_bridge raises nothing and yields no bridge, and unwrap_conn_comp
\* returns the field changed by reference normalization only.  Stated for
\* the masks whose region label() keeps (numLabel = 1): no call up to
\* find_mst_bridge raises, the bridge list is empty, and a returned field is
\* the normalized one.
C5_SingleRegion ==
    (OneRegion /\ erosion_size # None /\ numLabel = 1) =>
        /\ unwArg = NoField => pc # "raised"
        /\ pc = "bridged" => bridges = << >>
        /\ Returned => NormalizedOnly

\* C6: when either intersection AOI * label of a bridge is empty, a call
\* that returns has left the pixels of the bridge's label1 region as they
\* were after reference normalization.
C6_EmptyAoiNotApplied ==
    Returned =>
        \A i \in BridgeIdx :
            (Aoi0(bridges[i]) = {} \/ Aoi1(bridges[i]) = {}) =>
                \A k \in 1..Len(unwOut) :
                    labelImg[k] = bridges[i].label1 => unwOut[k] = unwNorm[k]

\* C7: the constructor raises for an argument that is not a 2D boolean or
\* integer array, and unwrap_conn_comp raises, returning nothing, for a field
\* of another shape than the mask, whatever the bridge list.
C7_InvalidInputRejected ==
    /\ (~IsMask(conncomp) /\ pc # "new") => pc = "raised"
    /\ (unwArg # NoField /\ unwArg.shape # << length, width >>) =>
            (pc = "raised" /\ runs = 0)

\* C8: once get_all_bridge has filled the dictionary, find_mst_bridge
\* completes with N - 1 bridges, each with the two pixels stored for its
\* pair of labels, and no two pairs share a key.
C8_BridgesFromRecords ==
    (hasDistMat /\ labelRef \in 1..numLabel /\ unwArg = NoField
        /\ pc \in {"bridged", "raised"}) =>
        /\ pc = "bridged"
        /\ Len(bridges) = numLabel - 1
        /\ \A p, q \in Pairs(numLabel) :
              p # q => KeyOf(Str(p[1]), Str(p[2])) # KeyOf(Str(q[1]), Str(q[2]))
        /\ \A i \in BridgeIdx :
              LET b == bridges[i]
                  conn == connDict[NumericKey(b.label0, b.label1)]
              IN  /\ Idx(b.y0, b.x0, width) = ConnGet(conn, Str(b.label0))
                  /\ Idx(b.y1, b.x1, width) = ConnGet(conn, Str(b.label1))

\* C9: both endpoints of every bridge are pixels of their own region in the
\* final label image: labelImg[y0, x0] = label0 and labelImg[y1, x1] = label1.
C9_EndpointsInOwnRegion ==
    pc = "bridged" =>
        \A i \in BridgeIdx :
            /\ labelImg[Idx(bridges[i].y0, bridges[i].x0, width)]
                  = bridges[i].label0
            /\ labelImg[Idx(bridges[i].y1, bridges[i].x1, width)]
                  = bridges[i].label1

\* C10: the bridge loop leaves the reference region and the background as
\* they were after normalization, and shifts every other region by one
\* whole number of cycles, applied by exactly one bridge.
C10_FrameOfBridgeLoop ==
    (Returned /\ labelRef \in 1..numLabel) =>
        /\ \A k \in 1..Len(unwOut) :
              labelImg[k] \in {0, labelRef} => unwOut[k] = unwNorm[k]
        /\ \A n \in (1..numLabel) \ {labelRef} :
              /\ Cardinality({i \in BridgeIdx : bridges[i].label1 = n}) = 1
              /\ \A k \in Coords(labelImg, n) :
                    /\ unwOut[k] # NaN /\ unwNorm[k] # NaN
                    /\ (unwOut[k] - unwNorm[k]) % TwoPi = 0
                    /\ \A j \in Coords(labelImg, n) :
                          unwOut[j] - unwNorm[j] = unwOut[k] - unwNorm[k]

===========================================================================
